---- MODULE Spec2Model ----
(***************************************************************************)
(* A model of the two-party LLM conversation generator:                    *)
(*   - main() of src/conversation.ts (argument check, turn loop, delays,   *)
(*     transcript assembly, upload decision),                              *)
(*   - OpenAIHandler / AnthropicHandler.processMessage,                    *)
(*   - HistoryManager (history.ts) and withRetry (retry-utils.ts),         *)
(*   - generateSessionId and the files several orchestrator processes      *)
(*     keep in one logs/ directory,                                        *)
(*   - the model list cache of dynamic-model-registry.ts.                  *)
(* Strings whose characters matter (the max_turns argument, error          *)
(* messages, turn-file names) are sequences of one-character strings.      *)
(***************************************************************************)
EXTENDS Integers, Sequences, FiniteSets, TLC

VARIABLES
  argv,          \* process.argv.slice(2): [topic, maxTurns, flags]
  configFile,    \* the key/value pairs of config.env
  pc,            \* position of main(): start, loop, fetch, delay1, llm2, delay2, assemble, done, exited
  maxTurns,      \* parseInt(args[1]) as a JS number [nan, n]
  turnCount,     \* main's turnCount
  currentMessage,\* main's currentMessage
  slot,          \* which participant's processMessage is running: llm1 / llm2 / none
  sessionLog,    \* the "Turn k/N: LLMx (provider)" lines of the session log
  files,         \* names of the non-turn files written under logs/
  history,       \* messages of logs/<session>_history.json
  historyTopic,  \* conversation_topic of that file
  turnFiles,     \* the per-turn metadata files, each held as its TurnMetadata
  request,       \* the payload of the provider request in flight: [provider, model, topic]
  attempts,      \* invocations of the operation inside the current withRetry call
  failedAttempts,\* failed attempts reported to onFailedAttempt in that call
  n429,          \* "Retrying due to rate limiting" lines printed in that call
  lastOutcome,   \* outcome of the latest HTTP request of that call
  turnError,     \* the error processMessage threw: [turn, message]
  delays,        \* inter-message delays waited so far
  transcript,    \* <<>> or <<the comprehensive JSON written by createComprehensiveJson>>
  uploadAttempted,
  exitCode,      \* -1 while running, else the process exit code
  \* several orchestrator processes that share logs/ (SessionsSpec)
  orchestrators, \* per process: [topic, sessionId, turn, phase, transcript]
  logDir,        \* the files of logs/: [name, owner, kind, turn]
  \* the module state of dynamic-model-registry.ts (RegistrySpec)
  modelCache,    \* provider -> [cached, models, timestamp, ttl]
  now,           \* Date.now() in milliseconds
  apiCalls,      \* GET <baseUrl>/models requests sent so far
  lastLookup,    \* the latest getDynamicSupportedModels call and what it returned
  lastFetch      \* provider -> the latest call since the cache was cleared that
                 \* did not answer from the cache: [done, at, models]

\* the state of one run of main()
conversationVars ==
  <<argv, configFile, pc, maxTurns, turnCount, currentMessage, slot,
    sessionLog, files, history, historyTopic, turnFiles, request, attempts,
    failedAttempts, n429, lastOutcome, turnError, delays, transcript,
    uploadAttempted, exitCode>>

sessionVars == <<orchestrators, logDir>>

registryVars == <<modelCache, now, apiCalls, lastLookup, lastFetch>>

vars == <<conversationVars, sessionVars, registryVars>>

(***************************************************************************)
(* Bounds of the model.                                                    *)
(***************************************************************************)
\* max_turns arguments "0" .. "MaxArg" are enumerated, next to the boundary
\* values "50", "51" and the malformed ones.
MaxArg == 11

(***************************************************************************)
(* Program constants.                                                      *)
(***************************************************************************)
MinTurns == 2
MaxTurnsLimit == 50
Retries == 5

(***************************************************************************)
(* Characters and strings.                                                 *)
(***************************************************************************)
DigitChars == <<"0", "1", "2", "3", "4", "5", "6", "7", "8", "9">>

IsDigit(c) == \E i \in 1..10 : DigitChars[i] = c

DigitVal(c) == (CHOOSE i \in 1..10 : DigitChars[i] = c) - 1

\* String(n) for a non-negative integer n
RECURSIVE ToDigits(_)
ToDigits(n) ==
  IF n < 10 THEN <<DigitChars[n + 1]>>
  ELSE ToDigits(n \div 10) \o <<DigitChars[(n % 10) + 1]>>

\* UTF-16 code units of the characters that occur in turn-file names
CharCode(c) ==
  IF IsDigit(c) THEN 48 + DigitVal(c)
  ELSE CASE c = "." -> 46
         [] c = "_" -> 95
         [] c = "a" -> 97
         [] c = "c" -> 99
         [] c = "e" -> 101
         [] c = "h" -> 104
         [] c = "i" -> 105
         [] c = "j" -> 106
         [] c = "n" -> 110
         [] c = "o" -> 111
         [] c = "p" -> 112
         [] c = "r" -> 114
         [] c = "s" -> 115
         [] c = "t" -> 116
         [] OTHER -> 0

\* String.prototype.includes
Includes(s, pat) ==
  \E i \in 1..(Len(s) - Len(pat) + 1) : SubSeq(s, i, i + Len(pat) - 1) = pat

(***************************************************************************)
(* JS numbers as far as main() needs them: NaN or an integer.              *)
(***************************************************************************)
NaN == [nan |-> TRUE, n |-> 0]
Num(n) == [nan |-> FALSE, n |-> n]

\* x < y on JS numbers: false when either side is NaN
JsLess(x, y) == ~x.nan /\ ~y.nan /\ x.n < y.n
\* x >= y on JS numbers: false when either side is NaN
JsGeq(x, y) == ~x.nan /\ ~y.nan /\ x.n >= y.n

RECURSIVE DigitPrefix(_)
DigitPrefix(s) ==
  IF Len(s) = 0 \/ ~IsDigit(Head(s)) THEN <<>>
  ELSE <<Head(s)>> \o DigitPrefix(Tail(s))

RECURSIVE DigitsValue(_)
DigitsValue(d) ==
  IF Len(d) = 0 THEN 0
  ELSE 10 * DigitsValue(SubSeq(d, 1, Len(d) - 1)) + DigitVal(d[Len(d)])

RECURSIVE SkipWhitespace(_)
SkipWhitespace(s) ==
  IF Len(s) > 0 /\ Head(s) = " " THEN SkipWhitespace(Tail(s)) ELSE s

\* parseInt(s) in radix 10: leading whitespace, an optional sign, then the
\* longest prefix of digits; whatever follows is ignored; no digit gives NaN.
ParseInt(s) ==
  LET t == SkipWhitespace(s)
      signed == Len(t) > 0 /\ t[1] \in {"+", "-"}
      neg == Len(t) > 0 /\ t[1] = "-"
      d == DigitPrefix(IF signed THEN Tail(t) ELSE t)
  IN IF Len(d) = 0 THEN NaN
     ELSE Num(IF neg THEN 0 - DigitsValue(d) ELSE DigitsValue(d))

(***************************************************************************)
(* Inputs: command line and config.env.                                    *)
(***************************************************************************)
Providers == {"openai", "anthropic"}

TopicText == <<"topic", 0>>

\* a CONVERSATION_TOPIC of config.env that is another text than the topic of
\* the command line
ConfigTopic == <<"config topic", 0>>

\* the empty string
NoText == <<"", 0>>

\* the text the provider answers at turn k
ReplyText(k) == <<"reply", k>>

MaxTurnsArgs ==
  {ToDigits(n) : n \in 0..MaxArg}
    \cup {ToDigits(MaxTurnsLimit), ToDigits(MaxTurnsLimit + 1)}
    \cup {<<"-", "3">>, <<"2", ".", "5">>, <<"1", ".", "9">>, <<"a", "b", "c">>}

\* FairSpec: max_turns arguments up to MaxFairArg, and the ones that are out
\* of range or no integer
MaxFairArg == 4

FairMaxTurnsArgs ==
  {ToDigits(n) : n \in 0..MaxFairArg}
    \cup {ToDigits(MaxTurnsLimit + 1)}
    \cup {<<"-", "3">>, <<"2", ".", "5">>, <<"1", ".", "9">>, <<"a", "b", "c">>}

\* the sessions of Spec are run without an upload flag, from a config.env
\* that enables the upload
UploadFlags == {{}}

\* a key that config.env leaves out or leaves empty is held as ""
ConfigFiles ==
  [LLM1_PROVIDER : Providers, LLM2_PROVIDER : Providers,
   LLM1_MODEL : {""}, LLM2_MODEL : {""},
   OPENAI_MODEL : {"gpt-4"}, ANTHROPIC_MODEL : {"claude-3-5-sonnet-20241022"},
   UPLOAD_ENABLED : {"true"}, AUTO_UPLOAD : {"true"},
   UPLOAD_API_URL : {"https://viewer.example/api"},
   CONVERSATION_TOPIC : {TopicText}]

\* the sessions of UploadSpec and ModelsSpec run 2 or 3 turns
OptionMaxTurnsArgs == {ToDigits(2), ToDigits(3)}

\* UploadSpec: every combination of the upload flags and of the upload
\* switches of config.env
OptionFlags == SUBSET {"--upload", "--no-upload"}

UploadConfigFiles ==
  [LLM1_PROVIDER : {"openai"}, LLM2_PROVIDER : {"anthropic"},
   LLM1_MODEL : {""}, LLM2_MODEL : {""},
   OPENAI_MODEL : {"gpt-4"}, ANTHROPIC_MODEL : {"claude-3-5-sonnet-20241022"},
   UPLOAD_ENABLED : {"true", "false"}, AUTO_UPLOAD : {"true", "false"},
   UPLOAD_API_URL : {"https://viewer.example/api"},
   CONVERSATION_TOPIC : {TopicText}]

\* ModelsSpec: a model override, or none, for each participant; LLM1_MODEL=" "
\* is an override that is one space
ModelConfigFiles ==
  [LLM1_PROVIDER : Providers, LLM2_PROVIDER : Providers,
   LLM1_MODEL : {"", " ", "gpt-3.5-turbo", "claude-3-haiku-20240307"},
   LLM2_MODEL : {"", "gpt-3.5-turbo"},
   OPENAI_MODEL : {"gpt-4"}, ANTHROPIC_MODEL : {"claude-3-5-sonnet-20241022"},
   UPLOAD_ENABLED : {"false"}, AUTO_UPLOAD : {"false"},
   UPLOAD_API_URL : {""},
   CONVERSATION_TOPIC : {TopicText}]

\* TopicSpec: CONVERSATION_TOPIC is left empty, is the topic of the command
\* line, or is another text
TopicConfigFiles ==
  [LLM1_PROVIDER : Providers, LLM2_PROVIDER : Providers,
   LLM1_MODEL : {""}, LLM2_MODEL : {""},
   OPENAI_MODEL : {"gpt-4"}, ANTHROPIC_MODEL : {"claude-3-5-sonnet-20241022"},
   UPLOAD_ENABLED : {"false"}, AUTO_UPLOAD : {"false"},
   UPLOAD_API_URL : {""},
   CONVERSATION_TOPIC : {NoText, TopicText, ConfigTopic}]

SUPPORTED_MODELS ==
  [openai |-> {"gpt-4", "gpt-4-turbo", "gpt-4-turbo-preview", "gpt-4o",
               "gpt-4o-mini", "gpt-4-0125-preview", "gpt-4-1106-preview",
               "gpt-4-vision-preview", "gpt-3.5-turbo", "gpt-3.5-turbo-16k",
               "gpt-3.5-turbo-0125", "gpt-3.5-turbo-1106"},
   anthropic |-> {"claude-3-5-sonnet-20241022", "claude-3-5-haiku-20241022",
                  "claude-3-opus-20240229", "claude-3-sonnet-20240229",
                  "claude-3-haiku-20240307", "claude-2.1", "claude-2.0",
                  "claude-instant-1.2"}]

isModelSupported(provider, model) == model \in SUPPORTED_MODELS[provider]

\* String.prototype.trim on the model names config.env can hold here: the
\* one that is a single space becomes empty, no other has whitespace at an end
Trim(str) == IF str = " " THEN "" ELSE str

\* the checks of loadConfig that end in process.exit(1): a required field
\* that is missing or empty, a model override (llm1Model && llm1Model.trim()
\* !== '') the participant's provider does not support, an enabled upload
\* without URL
ConfigRejected(file) ==
  \/ file.CONVERSATION_TOPIC = NoText
  \/ file.LLM1_MODEL # "" /\ Trim(file.LLM1_MODEL) # ""
       /\ ~isModelSupported(file.LLM1_PROVIDER, file.LLM1_MODEL)
  \/ file.LLM2_MODEL # "" /\ Trim(file.LLM2_MODEL) # ""
       /\ ~isModelSupported(file.LLM2_PROVIDER, file.LLM2_MODEL)
  \/ file.UPLOAD_ENABLED = "true" /\ file.UPLOAD_API_URL = ""

\* loadConfig: the returned typedConfig holds the listed keys only
loadConfig(file) ==
  [LLM1_PROVIDER |-> file.LLM1_PROVIDER, LLM2_PROVIDER |-> file.LLM2_PROVIDER,
   LLM1_MODEL |-> IF file.LLM1_MODEL = "" THEN "undefined" ELSE file.LLM1_MODEL,
   LLM2_MODEL |-> IF file.LLM2_MODEL = "" THEN "undefined" ELSE file.LLM2_MODEL,
   OPENAI_MODEL |-> file.OPENAI_MODEL, ANTHROPIC_MODEL |-> file.ANTHROPIC_MODEL,
   CONVERSATION_TOPIC |-> file.CONVERSATION_TOPIC]

\* config[key], "undefined" for a key the object does not have
ConfigGet(config, key) ==
  IF key \in DOMAIN config THEN config[key] ELSE "undefined"

getProviderForLLM(llmId, config) ==
  IF llmId = "llm1" THEN config.LLM1_PROVIDER ELSE config.LLM2_PROVIDER

\* ConversationAdapter.getModelForLLM: the participant's override when there
\* is one, else the default model of its provider
getModelForLLM(llmId, config) ==
  LET specificModel == IF llmId = "llm1" THEN config.LLM1_MODEL ELSE config.LLM2_MODEL
  IN IF specificModel # "undefined" THEN specificModel
     ELSE IF getProviderForLLM(llmId, config) = "openai" THEN config.OPENAI_MODEL
     ELSE config.ANTHROPIC_MODEL

\* uploadOverride of main(): "--upload" wins over "--no-upload"
UploadOverride(flags) ==
  IF "--upload" \in flags THEN "true"
  ELSE IF "--no-upload" \in flags THEN "false"
  ELSE "undefined"

\* if (maxTurns < 2 || maxTurns > 50)
OutOfRange(mt) == JsLess(mt, Num(MinTurns)) \/ JsLess(Num(MaxTurnsLimit), mt)

\* while (turnCount < maxTurns)
LoopContinues(tc, mt) == JsLess(Num(tc), mt)

\* the break test written with > instead of >=
BudgetExhaustedLate(tc, mt) == JsLess(mt, Num(tc))

\* if (turnCount >= maxTurns) break;
BudgetExhausted(tc, mt) == JsGeq(Num(tc), mt)

(***************************************************************************)
(* HistoryManager.                                                         *)
(***************************************************************************)
\* addMessage: push, then save() rewrites the whole file
addMessage(h, message) == Append(h, message)

\* the renderers build the array without appending the new message first
AddUserMessageSkipped(h, newMessage) == h

\* the history mutation of buildOpenAIMessages / buildAnthropicMessages
AddUserMessage(h, newMessage) ==
  addMessage(h, [role |-> "user", speaker |-> "none", content |-> newMessage])

\* the reply is returned without being put into the history
addAIResponseUnsaved(h, speaker, content) == h

\* addAIResponse: the reply is pushed with the vendor's name as speaker
addAIResponse(h, speaker, content) ==
  addMessage(h, [role |-> "none", speaker |-> speaker, content |-> content])

\* loadOrCreateHistory: the conversation_topic of the history file if there
\* is one, else the topic the HistoryManager is constructed with
loadOrCreateHistory(fileNames, stored, topic) ==
  IF "history.json" \in fileNames THEN stored ELSE topic

\* the system message buildOpenAIMessages puts in front: a fixed text with
\* ${topic} filled in
SystemMessage(topic) == [role |-> "system", content |-> <<"system", topic>>]

\* the array built from the history alone, with no system message in front
buildOpenAIMessagesNoSystem(h, topic) ==
  [i \in 1..Len(h) |->
     IF h[i].speaker = "anthropic" THEN [role |-> "assistant", content |-> h[i].content]
     ELSE IF h[i].role # "none" THEN [role |-> h[i].role, content |-> h[i].content]
     ELSE [role |-> "user", content |-> h[i].content]]

\* the array buildOpenAIMessages returns, h being the history with the new
\* message already appended
buildOpenAIMessages(h, topic) ==
  <<SystemMessage(topic)>> \o
  [i \in 1..Len(h) |->
     IF h[i].speaker = "anthropic" THEN [role |-> "assistant", content |-> h[i].content]
     ELSE IF h[i].role # "none" THEN [role |-> h[i].role, content |-> h[i].content]
     ELSE [role |-> "user", content |-> h[i].content]]

\* maxCacheBlocks of buildAnthropicMessages
MaxCacheBlocks == 4

\* the least history length from which buildAnthropicMessages sets cache hints
\* is one more than this
CacheMinMessages == 6

\* the messages before the last UncachedTail ones can get a hint
UncachedTail == 2

\* canAddCache without the count of the cache blocks used so far
CanAddCacheUnlimited(i, totalMessages, cacheBlocksUsed) ==
  ~(i >= totalMessages - UncachedTail)

\* canAddCache that leaves the first message out
CanAddCacheAfterFirst(i, totalMessages, cacheBlocksUsed) ==
  i > 0 /\ cacheBlocksUsed < MaxCacheBlocks /\ ~(i >= totalMessages - UncachedTail)

\* const canAddCache = cacheBlocksUsed < maxCacheBlocks && !isLastFewMessages
CanAddCache(i, totalMessages, cacheBlocksUsed) ==
  LET isLastFewMessages == i >= totalMessages - UncachedTail
  IN cacheBlocksUsed < MaxCacheBlocks /\ ~isLastFewMessages

\* the loop of buildAnthropicMessages from index i (0-based) on; an entry with
\* cache_control TRUE has its content wrapped in a text block that carries
\* cache_control: {type: 'ephemeral'}
RECURSIVE AnthropicLoop(_, _, _)
AnthropicLoop(h, i, cacheBlocksUsed) ==
  IF i >= Len(h) THEN <<>>
  ELSE LET msg == h[i + 1]
           totalMessages == Len(h)
           canAddCache == CanAddCache(i, totalMessages, cacheBlocksUsed)
           hinted == canAddCache /\ totalMessages > CacheMinMessages
           role == IF msg.speaker = "openai" THEN "assistant"
                   ELSE IF msg.role # "none" /\ msg.role # "system" THEN msg.role
                   ELSE "user"
       IN <<[role |-> role, content |-> msg.content, cache_control |-> hinted]>>
            \o AnthropicLoop(h, i + 1,
                              IF hinted THEN cacheBlocksUsed + 1 ELSE cacheBlocksUsed)

\* the array buildAnthropicMessages returns, h being the history with the
\* new message already appended
buildAnthropicMessages(h) == AnthropicLoop(h, 0, 0)

(***************************************************************************)
(* HTTP outcomes and the operation handed to withRetry.                    *)
(***************************************************************************)
ErrorStatuses == {400, 401, 403, 429, 500, 502, 503, 504}

\* "HTTP error! status: "
HttpErrorPrefix ==
  <<"H", "T", "T", "P", " ", "e", "r", "r", "o", "r", "!", " ",
    "s", "t", "a", "t", "u", "s", ":", " ">>

\* messages a provider puts in the error field of a 2xx payload
PayloadErrorMessages ==
  {<<"l", "i", "m", "i", "t", " ", "4", "2", "9">>,
   <<"b", "a", "d", " ", "k", "e", "y">>}

\* TypeError thrown by fetch when the connection fails
FetchFailedMessage == <<"f", "e", "t", "c", "h", " ", "f", "a", "i", "l", "e", "d">>

\* SyntaxError thrown by response.json() on a truncated body:
\* "JSON at position 1500"
JsonErrorMessage ==
  <<"J", "S", "O", "N", " ", "a", "t", " ", "p", "o", "s", "i", "t", "i", "o", "n",
    " ", "1", "5", "0", "0">>

NoUsage == [input |-> 0, output |-> 0]

\* the usage block of the reply to turn k
ReplyUsage(k) == [input |-> 10, output |-> k]

NoOutcome ==
  [kind |-> "none", status |-> 0, hasError |-> FALSE, error |-> <<>>,
   text |-> <<"none", 0>>, usage |-> NoUsage]

\* what one fetch of turn k can produce
HttpOutcomes(k) ==
  {[kind |-> "response", status |-> st, hasError |-> FALSE, error |-> <<>>,
    text |-> <<"none", 0>>, usage |-> NoUsage] : st \in ErrorStatuses}
  \cup {[kind |-> "response", status |-> 200, hasError |-> FALSE, error |-> <<>>,
         text |-> ReplyText(k), usage |-> ReplyUsage(k)]}
  \cup {[kind |-> "response", status |-> 200, hasError |-> TRUE, error |-> m,
         text |-> <<"none", 0>>, usage |-> NoUsage] : m \in PayloadErrorMessages}
  \cup {[kind |-> "network", status |-> 0, hasError |-> FALSE, error |-> <<>>,
         text |-> <<"none", 0>>, usage |-> NoUsage],
        [kind |-> "badjson", status |-> 200, hasError |-> FALSE, error |-> <<>>,
         text |-> <<"none", 0>>, usage |-> NoUsage]}

\* response.ok
ResponseOk(status) == status >= 200 /\ status <= 299

\* the retried function with the payload's error field checked inside it, so
\* that the payload error is thrown where withRetry classifies it
ApiCallThrowsPayloadError(outcome) ==
  IF outcome.kind = "network"
    THEN [ok |-> FALSE, errorType |-> "TypeError", message |-> FetchFailedMessage,
          value |-> NoOutcome]
  ELSE IF ~ResponseOk(outcome.status)
    THEN [ok |-> FALSE, errorType |-> "Error",
          message |-> HttpErrorPrefix \o ToDigits(outcome.status), value |-> NoOutcome]
  ELSE IF outcome.kind = "badjson"
    THEN [ok |-> FALSE, errorType |-> "SyntaxError", message |-> JsonErrorMessage,
          value |-> NoOutcome]
  ELSE IF outcome.hasError
    THEN [ok |-> FALSE, errorType |-> "Error", message |-> outcome.error,
          value |-> NoOutcome]
  ELSE [ok |-> TRUE, errorType |-> "none", message |-> <<>>, value |-> outcome]

\* The async function passed to withRetry: fetch, throw on !response.ok,
\* else return response.json().
ApiCall(outcome) ==
  IF outcome.kind = "network"
    THEN [ok |-> FALSE, errorType |-> "TypeError", message |-> FetchFailedMessage,
          value |-> NoOutcome]
  ELSE IF ~ResponseOk(outcome.status)
    THEN [ok |-> FALSE, errorType |-> "Error",
          message |-> HttpErrorPrefix \o ToDigits(outcome.status), value |-> NoOutcome]
  ELSE IF outcome.kind = "badjson"
    THEN [ok |-> FALSE, errorType |-> "SyntaxError", message |-> JsonErrorMessage,
          value |-> NoOutcome]
  ELSE [ok |-> TRUE, errorType |-> "none", message |-> <<>>, value |-> outcome]

(***************************************************************************)
(* withRetry (retry-utils.ts) on top of p-retry.                           *)
(***************************************************************************)
DEFAULT_RETRY_OPTIONS == [retries |-> Retries]

\* the options the handlers pass: {...DEFAULT_RETRY_OPTIONS, retries: 5}
HandlerRetryOptions == [retries |-> 5]

\* options.retries || DEFAULT_RETRY_OPTIONS.retries
EffectiveRetries(options) ==
  IF options.retries # 0 THEN options.retries ELSE DEFAULT_RETRY_OPTIONS.retries

\* "Retrying due to rate limiting" rather than "... server error"
IsRateLimitMessage(message) == Includes(message, <<"4", "2", "9">>)

\* the condition of onFailedAttempt with the test for 429 left out
IsRetryableMessageNo429(message) ==
  \/ Includes(message, <<"5", "0", "2">>)
  \/ Includes(message, <<"5", "0", "3">>)
  \/ Includes(message, <<"5", "0", "4">>)
  \/ Includes(message, <<"5", "0", "0">>)

\* the condition of onFailedAttempt under which it returns instead of
\* throwing AbortError
IsRetryableMessage(message) ==
  \/ Includes(message, <<"4", "2", "9">>)
  \/ Includes(message, <<"5", "0", "2">>)
  \/ Includes(message, <<"5", "0", "3">>)
  \/ Includes(message, <<"5", "0", "4">>)
  \/ Includes(message, <<"5", "0", "0">>)

\* p-retry rethrows a TypeError at once unless it is a network error
IsNetworkError(message) == message = FetchFailedMessage

\* What p-retry does with the error of attempt number attemptNumber:
\* "retry" schedules another attempt, "reject" rejects withRetry's promise.
\* p-retry's retries option counts the retries after the first attempt.
RetryDecision(err, attemptNumber, options) ==
  IF err.errorType = "TypeError" /\ ~IsNetworkError(err.message) THEN "reject"
  ELSE IF ~IsRetryableMessage(err.message) THEN "reject"
  ELSE IF attemptNumber <= EffectiveRetries(options) THEN "retry"
  ELSE "reject"

(***************************************************************************)
(* Turn files and transcript assembly.                                     *)
(***************************************************************************)
ProviderChars(p) ==
  IF p = "openai" THEN <<"o", "p", "e", "n", "a", "i">>
  ELSE <<"a", "n", "t", "h", "r", "o", "p", "i", "c">>

\* `${sessionId}_turn_${turnNumber}_${provider}.json` without the prefix
\* `${sessionId}_turn_` that all turn files of the session share
TurnFileName(turnNumber, provider) ==
  ToDigits(turnNumber) \o <<"_">> \o ProviderChars(provider)
    \o <<".", "j", "s", "o", "n">>

\* a < b for JS strings: code unit by code unit, a proper prefix comes first
RECURSIVE StringLess(_, _)
StringLess(a, b) ==
  IF Len(b) = 0 THEN FALSE
  ELSE IF Len(a) = 0 THEN TRUE
  ELSE IF CharCode(Head(a)) # CharCode(Head(b)) THEN CharCode(Head(a)) < CharCode(Head(b))
  ELSE StringLess(Tail(a), Tail(b))

\* Array.prototype.sort() without a comparator, on distinct strings
RECURSIVE SortStrings(_)
SortStrings(S) ==
  IF S = {} THEN <<>>
  ELSE LET m == CHOOSE x \in S : \A y \in S \ {x} : StringLess(x, y)
       IN <<m>> \o SortStrings(S \ {m})

\* the name under which processMessage writes a TurnMetadata
FileNameOf(data) == TurnFileName(data.turn, data.provider)

\* fs.writeFileSync of a turn file: an existing file of that name is replaced
WriteTurnFile(tf, data) ==
  {f \in tf : f.turn # data.turn \/ f.provider # data.provider} \cup {data}

\* the loop of collectTurnData over the parsed turn files: tokens?.total || 0
\* is added to the total, and to a vendor's sum only when the record's speaker
\* is that vendor's name
RECURSIVE SumTokens(_, _)
SumTokens(turns, speakers) ==
  IF Len(turns) = 0 THEN 0
  ELSE (IF Head(turns).speaker \in speakers THEN Head(turns).tokens.total ELSE 0)
         + SumTokens(Tail(turns), speakers)

\* the values the speaker field of a parsed turn file can have; "undefined"
\* is a file without that field
AnySpeaker == {"openai", "anthropic", "speaker_1", "speaker_2", "undefined"}

\* the readdirSync(...).filter(...).sort() of collectTurnData and the parse of
\* each file: the turn files in sorted name order (the sorted names are bound
\* once, as the const files of the code)
SortedTurnFiles(tf) ==
  LET Parsed(names) ==
        [i \in 1..Len(names) |-> CHOOSE f \in tf : FileNameOf(f) = names[i]]
  IN CHOOSE turns \in {Parsed(names) : names \in {SortStrings({FileNameOf(f) : f \in tf})}} :
       TRUE

\* collectTurnData: the session's turn files, read in sorted name order
collectTurnData(tf) ==
  LET Collected(turns) ==
        [turns |-> turns,
         totalTokens |-> SumTokens(turns, AnySpeaker),
         openaiTokens |-> SumTokens(turns, {"openai"}),
         anthropicTokens |-> SumTokens(turns, {"anthropic"})]
  IN CHOOSE turnData \in {Collected(turns) : turns \in {SortedTurnFiles(tf)}} : TRUE

\* the object createComprehensiveJson writes
createComprehensiveJson(topic, mt, actualTurns, turnData) ==
  [status |-> "completed", topic |-> topic, max_turns |-> mt,
   actual_turns |-> actualTurns,
   statistics |-> [total_tokens |-> turnData.totalTokens,
                   openai_tokens |-> turnData.openaiTokens,
                   anthropic_tokens |-> turnData.anthropicTokens],
   turns |-> turnData.turns]

\* const shouldUpload = uploadOverride !== undefined ? uploadOverride
\*                                                   : config.AUTO_UPLOAD === 'true'
ShouldUpload(flags, config) ==
  IF UploadOverride(flags) # "undefined" THEN UploadOverride(flags) = "true"
  ELSE ConfigGet(config, "AUTO_UPLOAD") = "true"

\* if (shouldUpload && config.UPLOAD_ENABLED === 'true')
UploadWanted(flags, config) ==
  ShouldUpload(flags, config) /\ ConfigGet(config, "UPLOAD_ENABLED") = "true"

(***************************************************************************)
(* processMessage of the two handlers.                                     *)
(***************************************************************************)
Config == loadConfig(configFile)

CurrentProvider == getProviderForLLM(slot, Config)

\* 'error' in responseData
HasErrorField(responseData) == responseData.hasError

\* new AnthropicHandler(config, sessionId, turnNumber, speakerPosition, model):
\* this.model = model || config.ANTHROPIC_MODEL, this.speakerPosition as given
AnthropicHandler(config, speakerPosition, model) ==
  [provider |-> "anthropic",
   model |-> IF model # "undefined" THEN model ELSE config.ANTHROPIC_MODEL,
   speaker |-> speakerPosition, topic |-> config.CONVERSATION_TOPIC]

\* new OpenAIHandler(config, sessionId, turnNumber): the payload's model is
\* this.config.OPENAI_MODEL, the metadata's speaker is 'openai'
OpenAIHandler(config) ==
  [provider |-> "openai", model |-> config.OPENAI_MODEL, speaker |-> "openai",
   topic |-> config.CONVERSATION_TOPIC]

\* LLMHandlerFactory.createHandler(provider, config, sessionId, turnNumber):
\* both constructors are called with these three arguments
createHandler(provider, config) ==
  IF provider = "openai" THEN OpenAIHandler(config)
  ELSE AnthropicHandler(config, "undefined", "undefined")

\* the payload of the chat request, as far as the model name and the topic
\* of its system instruction go
RequestPayload(handler) ==
  [provider |-> handler.provider, model |-> handler.model, topic |-> handler.topic]

NoRequest == [provider |-> "none", model |-> "none", topic |-> NoText]

\* usage.total_tokens of an OpenAI reply; input_tokens + output_tokens of an
\* Anthropic one
TotalTokens(usage) == usage.input + usage.output

\* the TurnMetadata object written to the turn file; provider is the vendor
\* name the handler puts into the file's name
TurnMetadata(turnNumber, handler, message, aiResponse, usage) ==
  [turn |-> turnNumber, provider |-> handler.provider, speaker |-> handler.speaker,
   input |-> message, output |-> aiResponse,
   tokens |-> [total |-> TotalTokens(usage)]]

\* the AIHandlerResult processMessage returns
HandlerResult(aiResponse, metadata) == [response |-> aiResponse, metadata |-> metadata]

\* main() keeps sending the message it already had
MessageAfterTurnStale(cur, result) == cur

\* currentMessage = llm1Result.response / llm2Result.response
MessageAfterTurn(cur, result) == result.response

\* the error of a turn is logged and the transcript is assembled all the same
PcAfterErrorContinue == "assemble"

\* where main() goes when processMessage has thrown: catch, process.exit(1)
PcAfterError == "exited"

\* the catch block of processMessage gives the appended message back
HistoryRolledBack(h) == SubSeq(h, 1, Len(h) - 1)

\* the catch block of processMessage logs and rethrows: the history stays as
\* saved
HistoryAfterError(h) == h

\* main() never gets the result of the turn and waits
PcAfterTurnHangs(llmId, tc, mt) == "waiting"

\* where main() goes when a turn has returned
PcAfterTurn(llmId, tc, mt) ==
  IF llmId = "llm1"
    THEN IF BudgetExhausted(tc, mt) THEN "assemble" ELSE "delay1"
    ELSE "delay2"

(***************************************************************************)
(* Session identifiers and the logs/ directory that sessions share.        *)
(***************************************************************************)
\* processes running main() next to each other
NumProcesses == 2

Processes == 1..NumProcesses

\* turns of a session of SessionsSpec
SessionTurns == 2

\* the clock of SessionsSpec advances in steps of 30 seconds, MaxSessionTicks
\* times at most
SessionTick == 30000

MaxSessionTicks == 2

\* topicSlug is cut to 30 characters, the timestamp to 15
SlugLength == 30

TimestampLength == 15

LowerChars ==
  <<"a", "b", "c", "d", "e", "f", "g", "h", "i", "j", "k", "l", "m",
    "n", "o", "p", "q", "r", "s", "t", "u", "v", "w", "x", "y", "z">>

UpperChars ==
  <<"A", "B", "C", "D", "E", "F", "G", "H", "I", "J", "K", "L", "M",
    "N", "O", "P", "Q", "R", "S", "T", "U", "V", "W", "X", "Y", "Z">>

\* String.prototype.toLowerCase, character by character
ToLowerCase(str) ==
  [i \in 1..Len(str) |->
     IF \E j \in 1..26 : UpperChars[j] = str[i]
       THEN LowerChars[CHOOSE j \in 1..26 : UpperChars[j] = str[i]]
       ELSE str[i]]

\* replace(/[^a-z0-9]/g, '_')
ReplaceNonAlnum(str) ==
  [i \in 1..Len(str) |->
     IF (\E j \in 1..26 : LowerChars[j] = str[i]) \/ IsDigit(str[i])
       THEN str[i] ELSE "_"]

\* replace(/[:.]/g, '')
RECURSIVE RemoveColonsDots(_)
RemoveColonsDots(str) ==
  IF Len(str) = 0 THEN <<>>
  ELSE IF Head(str) \in {":", "."} THEN RemoveColonsDots(Tail(str))
  ELSE <<Head(str)>> \o RemoveColonsDots(Tail(str))

\* replace('T', '_'): the first T only
RECURSIVE ReplaceFirstT(_)
ReplaceFirstT(str) ==
  IF Len(str) = 0 THEN <<>>
  ELSE IF Head(str) = "T" THEN <<"_">> \o Tail(str)
  ELSE <<Head(str)>> \o ReplaceFirstT(Tail(str))

\* String.prototype.substring(0, n)
Substring0(str, n) == SubSeq(str, 1, IF Len(str) < n THEN Len(str) ELSE n)

\* String.prototype.startsWith / endsWith
StartsWith(str, prefix) ==
  Len(prefix) <= Len(str) /\ SubSeq(str, 1, Len(prefix)) = prefix

EndsWith(str, suffix) ==
  Len(suffix) <= Len(str)
    /\ SubSeq(str, Len(str) - Len(suffix) + 1, Len(str)) = suffix

\* n as two decimal digits
TwoDigits(n) == <<DigitChars[((n \div 10) % 10) + 1], DigitChars[(n % 10) + 1]>>

\* new Date(ms).toISOString(), the clock value 0 standing for
\* 2026-11-05T04:37:00.000Z and ms staying within that hour
toISOString(ms) ==
  LET secs == ms \div 1000
      millis == ms % 1000
  IN <<"2", "0", "2", "6", "-", "1", "1", "-", "0", "5", "T", "0", "4", ":">>
       \o TwoDigits(37 + (secs \div 60)) \o <<":">> \o TwoDigits(secs % 60)
       \o <<".", DigitChars[(millis \div 100) + 1]>> \o TwoDigits(millis % 100)
       \o <<"Z">>

ConversationPrefix ==
  <<"c", "o", "n", "v", "e", "r", "s", "a", "t", "i", "o", "n", "_">>

\* generateSessionId(topic) called when the clock shows date
generateSessionId(topic, date) ==
  LET topicSlug == Substring0(ReplaceNonAlnum(ToLowerCase(topic)), SlugLength)
      timestamp == Substring0(ReplaceFirstT(RemoveColonsDots(toISOString(date))),
                              TimestampLength)
  IN ConversationPrefix \o timestamp \o <<"_">> \o topicSlug

\* the topics the processes of SessionsSpec are started with:
\* "AI", "ai", "ai turn x"
SessionTopics ==
  {<<"A", "I">>, <<"a", "i">>, <<"a", "i", " ", "t", "u", "r", "n", " ", "x">>}

JsonSuffix == <<".", "j", "s", "o", "n">>

\* `${sessionId}_turn_`
TurnFilePrefix(sessionId) == sessionId \o <<"_", "t", "u", "r", "n", "_">>

\* `${sessionId}_turn_${turnNumber}_${provider}.json`
SessionTurnFile(sessionId, turnNumber, provider) ==
  TurnFilePrefix(sessionId) \o TurnFileName(turnNumber, provider)

\* `${sessionId}_history.json`
HistoryFile(sessionId) ==
  sessionId \o <<"_", "h", "i", "s", "t", "o", "r", "y">> \o JsonSuffix

\* `${sessionId}.json`
ExportFile(sessionId) == sessionId \o JsonSuffix

\* `${sessionId}.log`
SessionLogFile(sessionId) == sessionId \o <<".", "l", "o", "g">>

\* fs.writeFileSync: the file of that name is created or replaced
WriteFile(dir, name, data) == {f \in dir : f.name # name} \cup {[name |-> name, data |-> data]}

\* loadOrCreateHistory: the entries of the history file if it exists
LoadHistory(dir, name) == UNION {f.data : f \in {g \in dir : g.name = name}}

\* the readdirSync(...).filter(...) of collectTurnData
SessionTurnFiles(dir, sessionId) ==
  {f \in dir : StartsWith(f.name, TurnFilePrefix(sessionId)) /\ EndsWith(f.name, JsonSuffix)}

\* the vendor that serves turn k in SessionsSpec: LLM1 is openai, LLM2 anthropic
SessionProvider(k) == IF (k % 2) = 1 THEN "openai" ELSE "anthropic"

IdleOrchestrator ==
  [phase |-> "idle", topic |-> <<>>, sessionId |-> <<>>, turn |-> 0, transcript |-> {}]

SessionsIdle ==
  /\ orchestrators = [p \in Processes |-> IdleOrchestrator]
  /\ logDir = {}

(***************************************************************************)
(* dynamic-model-registry.ts.                                              *)
(***************************************************************************)
\* const CACHE_TTL = 24 * 60 * 60 * 1000
CACHE_TTL == 86400000

\* the clock of RegistrySpec advances in steps of 8 hours, MaxRegistryTicks
\* times at most, and MaxLookups calls of getDynamicSupportedModels are made
RegistryTick == 28800000

MaxRegistryTicks == 5

MaxLookups == 4

\* A model list is held by where it comes from: the list the provider API
\* serves (which changes from version to version), the list hard-coded in the
\* catch block of fetchAnthropicModels / fetchOpenAIModels, or the static
\* registry of model-registry.ts.
NumListVersions == 2

NoList == [source |-> "none", version |-> 0]

FallbackList == [source |-> "fallback", version |-> 0]

StaticList == [source |-> "static", version |-> 0]

ApiLists == {[source |-> "api", version |-> v] : v \in 1..NumListVersions}

\* what GET <baseUrl>/models can answer: a list, or a failure
ModelsResponses ==
  {[ok |-> TRUE, list |-> l] : l \in ApiLists} \cup {[ok |-> FALSE, list |-> NoList]}

\* fetchAnthropicModels / fetchOpenAIModels: the ids of the response, the
\* hard-coded list when the request fails
fetchModels(response) == IF response.ok THEN response.list ELSE FallbackList

NoCacheEntry == [cached |-> FALSE, models |-> NoList, timestamp |-> 0, ttl |-> 0]

\* only a list that came from the API is put into the cache
CachedEntryIfFetched(models, t) ==
  IF models.source = "api"
    THEN [cached |-> TRUE, models |-> models, timestamp |-> t, ttl |-> CACHE_TTL]
    ELSE NoCacheEntry

\* modelCache.set(provider, {models, timestamp: Date.now(), ttl: CACHE_TTL}):
\* whatever list the lookup gave
CachedEntry(models, t) ==
  [cached |-> TRUE, models |-> models, timestamp |-> t, ttl |-> CACHE_TTL]

\* the cache test with <= for <
CacheHitInclusive(entry, t) == entry.cached /\ t - entry.timestamp <= entry.ttl

\* if (cached && Date.now() - cached.timestamp < cached.ttl)
CacheHit(entry, t) == entry.cached /\ t - entry.timestamp < entry.ttl

NoLookup ==
  [n |-> 0, provider |-> "none", credentials |-> FALSE, hit |-> FALSE, models |-> NoList]

NoFetch == [done |-> FALSE, at |-> 0, models |-> NoList]

RegistryIdle ==
  /\ modelCache = [p \in Providers |-> NoCacheEntry]
  /\ now = 0
  /\ apiCalls = 0
  /\ lastLookup = NoLookup
  /\ lastFetch = [p \in Providers |-> NoFetch]

(***************************************************************************)
(* The state machine.                                                      *)
(***************************************************************************)
\* main() has not started
ConversationStart ==
  /\ pc = "start"
  /\ maxTurns = Num(0)
  /\ turnCount = 0
  /\ currentMessage = <<"none", 0>>
  /\ slot = "none"
  /\ sessionLog = <<>>
  /\ files = {}
  /\ history = <<>>
  /\ historyTopic = NoText
  /\ turnFiles = {}
  /\ request = NoRequest
  /\ attempts = 0
  /\ failedAttempts = 0
  /\ n429 = 0
  /\ lastOutcome = NoOutcome
  /\ turnError = [turn |-> 0, message |-> <<>>]
  /\ delays = 0
  /\ transcript = <<>>
  /\ uploadAttempted = FALSE
  /\ exitCode = -1

Init ==
  /\ argv \in [topic : {TopicText}, maxTurns : MaxTurnsArgs, flags : UploadFlags]
  /\ configFile \in ConfigFiles
  /\ ConversationStart
  /\ SessionsIdle
  /\ RegistryIdle

\* main() up to the turn loop: parse the arguments, reject a max_turns out of
\* range, load the configuration (which exits on a config.env it rejects),
\* write the session log header.
Start ==
  /\ pc = "start"
  /\ maxTurns' = ParseInt(argv.maxTurns)
  /\ IF OutOfRange(maxTurns') \/ ConfigRejected(configFile)
       THEN /\ pc' = "exited"
            /\ exitCode' = 1
            /\ UNCHANGED <<files, currentMessage>>
       ELSE /\ pc' = "loop"
            /\ files' = files \cup {"session.log"}
            /\ currentMessage' = argv.topic
            /\ UNCHANGED exitCode
  /\ UNCHANGED <<argv, configFile, turnCount, slot, sessionLog, history,
                 historyTopic, turnFiles, request, attempts, failedAttempts, n429, lastOutcome, turnError,
                 delays, transcript, uploadAttempted>>
  /\ UNCHANGED <<sessionVars, registryVars>>

\* turnCount++, the "Turn k/N" log line, createHandler and processMessage up
\* to the first request: the outbound message is appended to the history and
\* the history file is saved.
BeginTurn(llmId) ==
  /\ turnCount' = turnCount + 1
  /\ slot' = llmId
  /\ sessionLog' = Append(sessionLog, [turn |-> turnCount + 1, llm |-> llmId])
  /\ historyTopic' = loadOrCreateHistory(files, historyTopic, Config.CONVERSATION_TOPIC)
  /\ history' = AddUserMessage(history, currentMessage)
  /\ files' = files \cup {"history.json"}
  /\ request' = RequestPayload(createHandler(getProviderForLLM(llmId, Config), Config))
  /\ attempts' = 0
  /\ failedAttempts' = 0
  /\ n429' = 0
  /\ lastOutcome' = NoOutcome
  /\ pc' = "fetch"

\* the head of the while loop
Loop ==
  /\ pc = "loop"
  /\ IF LoopContinues(turnCount, maxTurns)
       THEN BeginTurn("llm1")
       ELSE /\ pc' = "assemble"
            /\ UNCHANGED <<turnCount, slot, sessionLog, history, historyTopic, files, request,
                           attempts, failedAttempts, n429, lastOutcome>>
  /\ UNCHANGED <<argv, configFile, maxTurns, currentMessage, turnFiles, turnError,
                 delays, transcript, uploadAttempted, exitCode>>
  /\ UNCHANGED <<sessionVars, registryVars>>

\* A request is answered with a usable reply: withRetry resolves, the reply is
\* appended to the history, the turn file is written, main() takes the reply
\* as the next message.
TurnSucceeds ==
  /\ pc = "fetch"
  /\ \E outcome \in HttpOutcomes(turnCount) :
       LET r == ApiCall(outcome)
           aiResponse == r.value.text
           handler == createHandler(CurrentProvider, Config)
           metadata == TurnMetadata(turnCount, handler, currentMessage, aiResponse,
                                    r.value.usage)
       IN /\ r.ok
          /\ ~HasErrorField(r.value)
          /\ attempts' = attempts + 1
          /\ lastOutcome' = outcome
          /\ history' = addAIResponse(history, CurrentProvider, aiResponse)
          /\ turnFiles' = WriteTurnFile(turnFiles, metadata)
          /\ currentMessage' = MessageAfterTurn(currentMessage,
                                                HandlerResult(aiResponse, metadata))
  /\ pc' = PcAfterTurn(slot, turnCount, maxTurns)
  /\ UNCHANGED <<argv, configFile, maxTurns, turnCount, slot, sessionLog, files,
                 historyTopic, request, failedAttempts, n429, turnError, delays, transcript,
                 uploadAttempted, exitCode>>
  /\ UNCHANGED <<sessionVars, registryVars>>

\* A request fails and p-retry schedules another attempt.
TurnRetries ==
  /\ pc = "fetch"
  /\ \E outcome \in HttpOutcomes(turnCount) :
       LET r == ApiCall(outcome)
       IN /\ ~r.ok
          /\ RetryDecision(r, attempts + 1, HandlerRetryOptions) = "retry"
          /\ attempts' = attempts + 1
          /\ failedAttempts' = failedAttempts + 1
          /\ n429' = IF IsRateLimitMessage(r.message) THEN n429 + 1 ELSE n429
          /\ lastOutcome' = outcome
  /\ UNCHANGED <<argv, configFile, pc, maxTurns, turnCount, currentMessage, slot,
                 sessionLog, files, history, historyTopic, turnFiles, request,
                 turnError, delays, transcript, uploadAttempted, exitCode>>
  /\ UNCHANGED <<sessionVars, registryVars>>

\* processMessage throws: withRetry rejects, or the payload of a 2xx response
\* has an error field.  main() catches, logs and exits with code 1.
TurnFails ==
  /\ pc = "fetch"
  /\ \E outcome \in HttpOutcomes(turnCount) :
       LET r == ApiCall(outcome)
       IN /\ IF r.ok THEN HasErrorField(r.value)
             ELSE RetryDecision(r, attempts + 1, HandlerRetryOptions) = "reject"
          /\ attempts' = attempts + 1
          /\ failedAttempts' = IF r.ok THEN failedAttempts ELSE failedAttempts + 1
          /\ n429' = IF ~r.ok /\ IsRetryableMessage(r.message)
                          /\ IsRateLimitMessage(r.message)
                       THEN n429 + 1 ELSE n429
          /\ lastOutcome' = outcome
          /\ turnError' = [turn |-> turnCount,
                           message |-> IF r.ok THEN r.value.error ELSE r.message]
  /\ history' = HistoryAfterError(history)
  /\ pc' = PcAfterError
  /\ exitCode' = 1
  /\ UNCHANGED <<argv, configFile, maxTurns, turnCount, currentMessage, slot,
                 sessionLog, files, historyTopic, turnFiles, request, delays,
                 transcript, uploadAttempted>>
  /\ UNCHANGED <<sessionVars, registryVars>>

\* the delay after the first participant's turn, then the second one's turn
Delay1 ==
  /\ pc = "delay1"
  /\ delays' = delays + 1
  /\ BeginTurn("llm2")
  /\ UNCHANGED <<argv, configFile, maxTurns, currentMessage, turnFiles, turnError,
                 transcript, uploadAttempted, exitCode>>
  /\ UNCHANGED <<sessionVars, registryVars>>

\* the delay after the second participant's turn, back to the loop head
Delay2 ==
  /\ pc = "delay2"
  /\ delays' = delays + 1
  /\ pc' = "loop"
  /\ UNCHANGED <<argv, configFile, maxTurns, turnCount, currentMessage, slot,
                 sessionLog, files, history, historyTopic, turnFiles, request,
                 attempts, failedAttempts, n429, lastOutcome, turnError, transcript,
                 uploadAttempted, exitCode>>
  /\ UNCHANGED <<sessionVars, registryVars>>

\* after the loop: collectTurnData, createComprehensiveJson, upload decision
Assemble ==
  /\ pc = "assemble"
  /\ transcript' = <<createComprehensiveJson(argv.topic, maxTurns, turnCount,
                                             collectTurnData(turnFiles))>>
  /\ files' = files \cup {"export.json"}
  /\ uploadAttempted' = UploadWanted(argv.flags, Config)
  /\ pc' = "done"
  /\ exitCode' = 0
  /\ UNCHANGED <<argv, configFile, maxTurns, turnCount, currentMessage, slot,
                 sessionLog, history, historyTopic, turnFiles, request, attempts,
                 failedAttempts, n429, lastOutcome, turnError, delays>>
  /\ UNCHANGED <<sessionVars, registryVars>>

Next ==
  \/ Start
  \/ Loop
  \/ TurnSucceeds
  \/ TurnRetries
  \/ TurnFails
  \/ Delay1
  \/ Delay2
  \/ Assemble

Spec == Init /\ [][Next]_vars

\* Every step of main() is a continuation of an awaited promise: an HTTP
\* request that returns (with a response or an error) or a timer that fires
\* (the delay between messages, the back-off of p-retry).  With both assumed
\* to happen, a step that can be taken is taken.
FairInit ==
  /\ argv \in [topic : {TopicText}, maxTurns : FairMaxTurnsArgs, flags : UploadFlags]
  /\ configFile \in ConfigFiles
  /\ ConversationStart
  /\ SessionsIdle
  /\ RegistryIdle

FairSpec == FairInit /\ [][Next]_vars /\ WF_vars(Next)

(***************************************************************************)
(* Sessions run with upload flags and upload switches (UploadSpec), and    *)
(* sessions run with model overrides (ModelsSpec).                         *)
(***************************************************************************)
UploadInit ==
  /\ argv \in [topic : {TopicText}, maxTurns : OptionMaxTurnsArgs, flags : OptionFlags]
  /\ configFile \in UploadConfigFiles
  /\ ConversationStart
  /\ SessionsIdle
  /\ RegistryIdle

UploadSpec == UploadInit /\ [][Next]_vars

ModelsInit ==
  /\ argv \in [topic : {TopicText}, maxTurns : OptionMaxTurnsArgs, flags : UploadFlags]
  /\ configFile \in ModelConfigFiles
  /\ ConversationStart
  /\ SessionsIdle
  /\ RegistryIdle

ModelsSpec == ModelsInit /\ [][Next]_vars

\* sessions run from a config.env with one CONVERSATION_TOPIC or another
TopicInit ==
  /\ argv \in [topic : {TopicText}, maxTurns : OptionMaxTurnsArgs, flags : UploadFlags]
  /\ configFile \in TopicConfigFiles
  /\ ConversationStart
  /\ SessionsIdle
  /\ RegistryIdle

TopicSpec == TopicInit /\ [][Next]_vars

(***************************************************************************)
(* Several orchestrator processes over one logs/ directory (SessionsSpec). *)
(* Every turn of these sessions succeeds.                                  *)
(***************************************************************************)
\* no run of main() is followed in SessionsSpec and RegistrySpec
ConversationIdle ==
  /\ argv = [topic |-> TopicText, maxTurns |-> ToDigits(MinTurns), flags |-> {}]
  /\ configFile \in {f \in ConfigFiles :
                       f.LLM1_PROVIDER = "openai" /\ f.LLM2_PROVIDER = "anthropic"}
  /\ ConversationStart

SessionsInit ==
  /\ ConversationIdle
  /\ SessionsIdle
  /\ RegistryIdle

\* main() of process p up to the turn loop: generateSessionId, the session
\* log file is written
StartSession(p, topic) ==
  /\ orchestrators[p].phase = "idle"
  /\ LET sessionId == generateSessionId(topic, now)
     IN /\ orchestrators' =
             [orchestrators EXCEPT ![p] =
                [phase |-> "running", topic |-> topic, sessionId |-> sessionId,
                 turn |-> 0, transcript |-> {}]]
        /\ logDir' = WriteFile(logDir, SessionLogFile(sessionId), {})
  /\ UNCHANGED <<conversationVars, registryVars>>

\* one turn of process p: the handler loads the history file of its session
\* id if there is one, appends to it and saves it, and writes the turn file
SessionTurn(p) ==
  /\ orchestrators[p].phase = "running"
  /\ orchestrators[p].turn < SessionTurns
  /\ LET sessionId == orchestrators[p].sessionId
         k == orchestrators[p].turn + 1
         entry == [owner |-> p, turn |-> k]
         saved == WriteFile(logDir, HistoryFile(sessionId),
                            LoadHistory(logDir, HistoryFile(sessionId)) \cup {entry})
     IN /\ logDir' = WriteFile(saved, SessionTurnFile(sessionId, k, SessionProvider(k)),
                               {entry})
        /\ orchestrators' = [orchestrators EXCEPT ![p].turn = k]
  /\ UNCHANGED <<conversationVars, registryVars>>

\* process p after its loop: collectTurnData over logs/, then the transcript
\* is written
SessionAssemble(p) ==
  /\ orchestrators[p].phase = "running"
  /\ orchestrators[p].turn = SessionTurns
  /\ LET sessionId == orchestrators[p].sessionId
         turns == UNION {f.data : f \in SessionTurnFiles(logDir, sessionId)}
     IN /\ logDir' = WriteFile(logDir, ExportFile(sessionId), turns)
        /\ orchestrators' = [orchestrators EXCEPT ![p].phase = "done",
                                                  ![p].transcript = turns]
  /\ UNCHANGED <<conversationVars, registryVars>>

\* 30 seconds pass
SessionClockTick ==
  /\ now < MaxSessionTicks * SessionTick
  /\ now' = now + SessionTick
  /\ UNCHANGED <<conversationVars, sessionVars, modelCache, apiCalls, lastLookup,
                 lastFetch>>

SessionsNext ==
  \/ \E p \in Processes : \E topic \in SessionTopics : StartSession(p, topic)
  \/ \E p \in Processes : SessionTurn(p)
  \/ \E p \in Processes : SessionAssemble(p)
  \/ SessionClockTick

SessionsSpec == SessionsInit /\ [][SessionsNext]_vars

(***************************************************************************)
(* The model list cache (RegistrySpec).  The callers await each call, so a *)
(* call of getDynamicSupportedModels is one step.                          *)
(***************************************************************************)
RegistryInit ==
  /\ ConversationIdle
  /\ SessionsIdle
  /\ RegistryIdle

\* getDynamicSupportedModels(provider, apiKey, baseUrl); credentials tells
\* whether apiKey and baseUrl are both given, response is what the API would
\* answer and elapsed the time the request would take
getDynamicSupportedModels(provider, credentials, response, elapsed) ==
  /\ lastLookup.n < MaxLookups
  /\ IF CacheHit(modelCache[provider], now)
       THEN /\ lastLookup' = [n |-> lastLookup.n + 1, provider |-> provider,
                              credentials |-> credentials, hit |-> TRUE,
                              models |-> modelCache[provider].models]
            /\ UNCHANGED <<modelCache, now, apiCalls, lastFetch>>
       ELSE LET models == IF credentials THEN fetchModels(response) ELSE StaticList
            IN /\ now' = IF credentials THEN now + elapsed ELSE now
               /\ apiCalls' = IF credentials THEN apiCalls + 1 ELSE apiCalls
               /\ modelCache' = [modelCache EXCEPT ![provider] = CachedEntry(models, now')]
               /\ lastLookup' = [n |-> lastLookup.n + 1, provider |-> provider,
                                 credentials |-> credentials, hit |-> FALSE,
                                 models |-> models]
               /\ lastFetch' = [lastFetch EXCEPT ![provider] =
                                  [done |-> TRUE, at |-> now', models |-> models]]
  /\ UNCHANGED <<conversationVars, sessionVars>>

\* modelCache.clear()
clearModelCache ==
  /\ modelCache' = [p \in Providers |-> NoCacheEntry]
  /\ lastFetch' = [p \in Providers |-> NoFetch]
  /\ UNCHANGED <<conversationVars, sessionVars, now, apiCalls, lastLookup>>

\* 8 hours pass
RegistryClockTick ==
  /\ now < MaxRegistryTicks * RegistryTick
  /\ now' = now + RegistryTick
  /\ UNCHANGED <<conversationVars, sessionVars, modelCache, apiCalls, lastLookup,
                 lastFetch>>

RegistryNext ==
  \/ \E provider \in Providers, credentials \in BOOLEAN, response \in ModelsResponses,
        elapsed \in {0, RegistryTick} :
       getDynamicSupportedModels(provider, credentials, response, elapsed)
  \/ clearModelCache
  \/ RegistryClockTick

RegistrySpec == RegistryInit /\ [][RegistryNext]_vars

(***************************************************************************)
(* Properties.                                                             *)
(***************************************************************************)
\* the max turns main() works with is an integer N in [2, 50]
ValidN == ~maxTurns.nan /\ maxTurns.n \in MinTurns..MaxTurnsLimit

\* the session ran through all its turns and wrote its transcript
Completed == pc = "done"

\* the latest request of the current withRetry call was answered with a reply
TurnReturned ==
  lastOutcome.kind = "response" /\ lastOutcome.status = 200 /\ ~lastOutcome.hasError

RetryableStatuses == {429, 500, 502, 503, 504}

\* C1: the turns started so far are numbered 1, 2, ... in execution order, odd
\* turns are taken by llm1 and even turns by llm2, and a completed session
\* with max turns N in [2,50] has executed exactly N turns.
C1_TurnsAlternate ==
  /\ \A i \in 1..Len(sessionLog) :
       /\ sessionLog[i].turn = i
       /\ sessionLog[i].llm = IF i % 2 = 1 THEN "llm1" ELSE "llm2"
  /\ (Completed /\ ValidN) => Len(sessionLog) = maxTurns.n

C1_Witness ==
  /\ Completed
  /\ maxTurns.n = MaxTurnsLimit
  /\ Len(sessionLog) = MaxTurnsLimit
  /\ sessionLog[MaxTurnsLimit].llm = "llm2"

\* C2 (as claimed): the transcript of a completed N-turn session lists exactly
\* N turn records whose turn indices are 1, 2, ..., N in list order, and its
\* actual_turns is N.
C2_TranscriptInTurnOrder ==
  (Completed /\ ValidN) =>
    /\ Len(transcript[1].turns) = maxTurns.n
    /\ \A i \in 1..Len(transcript[1].turns) : transcript[1].turns[i].turn = i
    /\ transcript[1].actual_turns = maxTurns.n

\* C3: the input of turn 1 is the topic and the input of turn k+1 is the
\* output of turn k, for the turns recorded and for the turn in flight.
C3_InputChain ==
  /\ \A f \in turnFiles :
       IF f.turn = 1 THEN f.input = argv.topic
       ELSE /\ \E g \in turnFiles : g.turn = f.turn - 1
            /\ \A g \in turnFiles : g.turn = f.turn - 1 => f.input = g.output
  /\ pc = "fetch" =>
       /\ history[Len(history)].role = "user"
       /\ IF turnCount = 1 THEN history[Len(history)].content = argv.topic
          ELSE \A g \in turnFiles :
                 g.turn = turnCount - 1 => history[Len(history)].content = g.output

C3_Witness ==
  \E f \in turnFiles : f.turn = 3 /\ f.input = ReplyText(2) /\ f.output = ReplyText(3)

\* C4: once the provider call of turn k has ended in an unrecovered error the
\* session has failed: the process has exited with code 1, no turn after k
\* was started, no transcript was written and no upload was attempted.
C4_FailedSessionStops ==
  turnError.turn # 0 =>
    /\ pc = "exited"
    /\ exitCode = 1
    /\ turnCount = turnError.turn
    /\ Len(sessionLog) = turnError.turn
    /\ transcript = <<>>
    /\ "export.json" \notin files
    /\ ~uploadAttempted

C4_Witness ==
  /\ turnError.turn = 3
  /\ pc = "exited"
  /\ attempts = Retries + 1
  /\ Cardinality(turnFiles) = 2

\* a max_turns argument that denotes an integer in [2, 50]
DenotesValidTurns(s) ==
  /\ Len(s) > 0
  /\ \A i \in 1..Len(s) : IsDigit(s[i])
  /\ DigitsValue(s) \in MinTurns..MaxTurnsLimit

\* C5 (as claimed): a max_turns argument that does not denote an integer in
\* [2,50] is rejected before the session starts: no provider call, no file,
\* no transcript.
C5_InvalidMaxTurnsRejected ==
  (pc # "start" /\ ~DenotesValidTurns(argv.maxTurns)) =>
    /\ pc = "exited"
    /\ files = {}
    /\ sessionLog = <<>>
    /\ attempts = 0
    /\ transcript = <<>>

\* C6 (as claimed): an operation that fails with HTTP 429 on every attempt is
\* invoked exactly 5 times before the error is surfaced.
C6_FiveAttemptsInTotal ==
  (turnError.turn # 0 /\ lastOutcome.status = 429 /\ n429 = attempts) => attempts = 5

\* C7 (as claimed): a further attempt follows a failed one only if the
\* failure signals HTTP 429, 500, 502, 503 or 504.
C7_RetryOnlyOnRetryableStatus ==
  (pc = "fetch" /\ attempts > 0) =>
    (lastOutcome.kind = "response" /\ lastOutcome.status \in RetryableStatuses)

\* C8: a call whose failed attempts were k rate-limit failures (HTTP 429) and
\* whose next attempt succeeded has invoked the operation exactly k+1 times and
\* returned the reply of that attempt; and a 429 failure ends the call only
\* when the retry budget is used up.
C8_RateLimitedThenSuccess ==
  /\ (TurnReturned /\ n429 = failedAttempts) =>
       /\ attempts = n429 + 1
       /\ pc # "fetch"
       /\ currentMessage = lastOutcome.text
       /\ \E f \in turnFiles : f.turn = turnCount /\ f.output = lastOutcome.text
  /\ (lastOutcome.status = 429 /\ failedAttempts <= EffectiveRetries(HandlerRetryOptions)) =>
       (pc = "fetch" /\ turnError.turn = 0)

C8_Witness ==
  /\ TurnReturned
  /\ n429 = 3
  /\ failedAttempts = 3
  /\ attempts = 4
  /\ currentMessage = ReplyText(turnCount)

\* C9: when a 2xx response carries a payload with an error field, the turn
\* fails with that field's message, the request is not repeated (it is the
\* only request when it answers the first attempt), no reply is appended to
\* the history and no turn record is written.
C9_PayloadErrorIsFatal ==
  lastOutcome.hasError =>
    /\ pc = "exited"
    /\ turnError = [turn |-> turnCount, message |-> lastOutcome.error]
    /\ attempts = failedAttempts + 1
    /\ (failedAttempts = 0 => attempts = 1)
    /\ Len(history) = 2 * turnCount - 1
    /\ history[Len(history)] = [role |-> "user", speaker |-> "none",
                                content |-> currentMessage]
    /\ \A f \in turnFiles : f.turn # turnCount

C9_Witness ==
  /\ lastOutcome.hasError
  /\ IsRetryableMessage(lastOutcome.error)
  /\ attempts = 1
  /\ turnCount = 2
  /\ pc = "exited"

\* C10 (as claimed): in a completed N-turn session exactly N-1 inter-message
\* delays have been waited when the transcript is assembled.
C10_DelaysExceptAfterLast ==
  (pc \in {"assemble", "done"} /\ ValidN) => delays = maxTurns.n - 1

\* the names under which a session with that identifier keeps its history,
\* its turn records and its transcript
OwnFiles(sessionId) ==
  {HistoryFile(sessionId), ExportFile(sessionId)}
    \cup {SessionTurnFile(sessionId, k, SessionProvider(k)) : k \in 1..SessionTurns}

Started(p) == orchestrators[p].phase # "idle"

\* C11 (as claimed): when the sessions in logs/ have different session
\* identifiers, the history, the turn records and the transcript of each of
\* them hold only data produced by that session's own turns.
C11_SessionsIsolated ==
  \A p \in Processes :
    (Started(p) /\ \A q \in Processes \ {p} :
                     Started(q) => orchestrators[q].sessionId # orchestrators[p].sessionId)
      => \A f \in logDir :
           f.name \in OwnFiles(orchestrators[p].sessionId)
             => \A d \in f.data : d.owner = p

\* C12 (as claimed): any two sessions that were started have different
\* session identifiers.
C12_SessionIdsDiffer ==
  \A p, q \in Processes :
    (p # q /\ Started(p) /\ Started(q))
      => orchestrators[p].sessionId # orchestrators[q].sessionId

\* C13 (as claimed): the model name in the request of a turn is the override
\* of the participant whose turn it is (LLM1_MODEL / LLM2_MODEL) when config.env
\* has one, else the default model of the participant's provider.
C13_RequestUsesOverride ==
  pc = "fetch" =>
    /\ request.provider = getProviderForLLM(slot, Config)
    /\ request.model = getModelForLLM(slot, Config)

\* the sum of tokens.total over the turn records of a transcript that were
\* served by the vendors in the set
RECURSIVE TokensServedBy(_, _)
TokensServedBy(turns, vendors) ==
  IF Len(turns) = 0 THEN 0
  ELSE (IF Head(turns).provider \in vendors THEN Head(turns).tokens.total ELSE 0)
         + TokensServedBy(Tail(turns), vendors)

\* C14 (as claimed): in a transcript, statistics.total_tokens is the sum of
\* tokens.total over its turns, openai_tokens and anthropic_tokens are the sums
\* over the turns served by the respective vendor, and the two add up to
\* total_tokens.
C14_TokenStatistics ==
  Completed =>
    LET t == transcript[1]
    IN /\ t.statistics.total_tokens = TokensServedBy(t.turns, Providers)
       /\ t.statistics.openai_tokens = TokensServedBy(t.turns, {"openai"})
       /\ t.statistics.anthropic_tokens = TokensServedBy(t.turns, {"anthropic"})
       /\ t.statistics.openai_tokens + t.statistics.anthropic_tokens
            = t.statistics.total_tokens

\* processMessage has rendered the history for the request of this turn and
\* no answer has come yet
RequestBuilt == pc = "fetch" /\ attempts = 0

\* the messages array of the request just built
Rendering ==
  IF request.provider = "openai" THEN buildOpenAIMessages(history, request.topic)
  ELSE [i \in 1..Len(history) |->
          [role |-> buildAnthropicMessages(history)[i].role,
           content |-> buildAnthropicMessages(history)[i].content]]

\* C15: every rendering for OpenAI holds exactly one message of role system,
\* and it is the first one; a rendering for Anthropic holds none.
C15_SystemMessage ==
  RequestBuilt =>
    LET r == Rendering
    IN IF request.provider = "openai"
         THEN /\ r[1].role = "system"
              /\ \A i \in 2..Len(r) : r[i].role # "system"
         ELSE \A i \in 1..Len(r) : r[i].role # "system"

C15_Witness ==
  /\ RequestBuilt
  /\ request.provider = "openai"
  /\ Len(history) = 2 * MaxTurnsLimit - 1
  /\ \E i \in 1..Len(history) : history[i].speaker = "anthropic"

\* the positions of a rendering for Anthropic that carry the caching hint
Hinted(r) == {i \in 1..Len(r) : r[i].cache_control}

\* C16: in a rendering for Anthropic of a history of T messages (the new one
\* included), no message carries the caching hint when T <= 6; when T > 6 at
\* most 4 messages carry it and neither of the last 2 does.
C16_CacheHints ==
  (RequestBuilt /\ request.provider = "anthropic") =>
    LET r == buildAnthropicMessages(history)
        T == Len(history)
    IN IF T <= 6 THEN Hinted(r) = {}
       ELSE /\ Cardinality(Hinted(r)) <= 4
            /\ T \notin Hinted(r)
            /\ T - 1 \notin Hinted(r)

C16_Witness ==
  /\ RequestBuilt
  /\ request.provider = "anthropic"
  /\ Len(history) = 7
  /\ Hinted(buildAnthropicMessages(history)) = 1..4

\* C17: the rendering for new message M ends with an entry whose content is
\* M, and its entries (without the leading system message of the OpenAI
\* rendering) are, one for one and in the same order, the messages of the
\* history.
C17_RenderingFollowsHistory ==
  RequestBuilt =>
    LET r == IF request.provider = "openai" THEN Tail(Rendering) ELSE Rendering
    IN /\ Len(r) = Len(history)
       /\ \A i \in 1..Len(r) : r[i].content = history[i].content
       /\ Len(r) > 0
       /\ Rendering[Len(Rendering)].content = currentMessage
       /\ request.provider = "anthropic" =>
            ~buildAnthropicMessages(history)[Len(history)].cache_control

C17_Witness ==
  /\ RequestBuilt
  /\ turnCount = 3
  /\ Len(Rendering) = 6
  /\ Rendering[6].content = ReplyText(2)
  /\ Rendering[3].content = ReplyText(1)

\* C18 (as claimed): with UPLOAD_ENABLED=true in config.env, a completed
\* session run with --upload has attempted an upload whatever AUTO_UPLOAD says,
\* and a completed session run with --no-upload (and without --upload) has
\* attempted none.
C18_UploadFlagsDecide ==
  (Completed /\ configFile.UPLOAD_ENABLED = "true") =>
    /\ "--upload" \in argv.flags => uploadAttempted
    /\ argv.flags = {"--no-upload"} => ~uploadAttempted

\* the step is a call of getDynamicSupportedModels for provider p
LookupStep(p) == lastLookup'.n = lastLookup.n + 1 /\ lastLookup'.provider = p

\* less than 24 hours have passed since a list for provider p was looked up
\* at its source, and the cache was not cleared since
WithinTTL(p) == lastFetch[p].done /\ now - lastFetch[p].at < CACHE_TTL

\* C20: a call of getDynamicSupportedModels made within 24 hours of a lookup
\* for the same provider returns the list of that lookup and sends no API
\* request; a call made after clearModelCache, or once 24 hours have passed,
\* looks the list up again: it sends an API request when it has credentials
\* and returns the static list when it has none.
C20_ModelListCache ==
  [][\A p \in Providers :
       LookupStep(p) =>
         IF WithinTTL(p)
           THEN /\ lastLookup'.models = lastFetch[p].models
                /\ apiCalls' = apiCalls
           ELSE /\ lastLookup'.credentials => apiCalls' = apiCalls + 1
                /\ ~lastLookup'.credentials =>
                     (apiCalls' = apiCalls /\ lastLookup'.models = StaticList)
                /\ lastFetch'[p] = [done |-> TRUE, at |-> now',
                                     models |-> lastLookup'.models]]_vars

C20_Witness ==
  /\ lastLookup.n = 3
  /\ lastLookup.provider = "anthropic"
  /\ lastLookup.hit
  /\ lastLookup.models = [source |-> "api", version |-> 2]
  /\ apiCalls = 2
  /\ lastFetch["anthropic"].at = CACHE_TTL
  /\ now = CACHE_TTL + 2 * RegistryTick
  /\ ~lastFetch["openai"].done

(***************************************************************************)
(* Roles in the renderings.                                                *)
(***************************************************************************)
\* the participant main() gives turn k to: llm1 the odd turns, llm2 the even
ParticipantOfTurn(k) == IF (k % 2) = 1 THEN "llm1" ELSE "llm2"

\* the turns before the current one; the reply of turn k is message 2k of the
\* history of a session that started with an empty one
PriorTurns == 1..(turnCount - 1)

OwnPriorTurns == {k \in PriorTurns : ParticipantOfTurn(k) = slot}

OtherPriorTurns == {k \in PriorTurns : ParticipantOfTurn(k) # slot}

\* the role of history message i in the rendering just built
RenderedRole(i) ==
  IF request.provider = "openai" THEN Rendering[i + 1].role ELSE Rendering[i].role

\* C21 (as claimed): in every rendering for OpenAI, each prior reply of the
\* participant the rendering is built for has role assistant and each prior
\* reply of the other participant has role user, whatever vendors the two
\* participants are on.
C21_OpenAIRoles ==
  (RequestBuilt /\ request.provider = "openai") =>
    /\ \A k \in OwnPriorTurns : RenderedRole(2 * k) = "assistant"
    /\ \A k \in OtherPriorTurns : RenderedRole(2 * k) = "user"

\* C22 (as claimed): in every rendering for Anthropic, each prior reply of the
\* other participant has role assistant and every other message has role
\* user, whatever vendors the two participants are on, both on Anthropic
\* included.
C22_AnthropicRoles ==
  (RequestBuilt /\ request.provider = "anthropic") =>
    \A i \in 1..Len(history) :
      RenderedRole(i) =
        IF \E k \in OtherPriorTurns : i = 2 * k THEN "assistant" ELSE "user"

\* C23 (as claimed): at every turn the roles of the rendered array alternate
\* strictly between user and assistant, in the OpenAI rendering after the
\* leading system message.
C23_RolesAlternate ==
  RequestBuilt =>
    /\ \A i \in 1..Len(history) : RenderedRole(i) \in {"user", "assistant"}
    /\ \A i \in 1..(Len(history) - 1) : RenderedRole(i) # RenderedRole(i + 1)

(***************************************************************************)
(* The persisted history.                                                  *)
(***************************************************************************)
\* no turn is in flight and none has failed: every turn begun has returned
BetweenTurns == pc \in {"loop", "delay1", "delay2", "assemble", "done"}

\* the message main() sends at turn k: the topic, then the previous reply
SentAtTurn(k) == IF k = 1 THEN argv.topic ELSE ReplyText(k - 1)

\* the first 2k messages of the history are, for each of the turns 1..k in
\* order, the message sent and then the reply
HoldsTurns(h, k) ==
  /\ Len(h) >= 2 * k
  /\ \A i \in 1..k :
       /\ h[(2 * i) - 1] = [role |-> "user", speaker |-> "none", content |-> SentAtTurn(i)]
       /\ h[2 * i] = [role |-> "none",
                      speaker |-> getProviderForLLM(ParticipantOfTurn(i), Config),
                      content |-> ReplyText(i)]

\* C24: after k successful turns of a session that started without a history
\* file, the history holds exactly 2k messages: for each turn in order the
\* message sent and then the reply, however many requests the turns took.
C24_HistoryPairs ==
  BetweenTurns => (Len(history) = 2 * turnCount /\ HoldsTurns(history, turnCount))

C24_Witness ==
  /\ pc = "done"
  /\ turnCount = 3
  /\ Len(history) = 6
  /\ failedAttempts = Retries

\* C25: when the provider call of turn k fails, what the turn leaves in the
\* session data is one message more in the history, the message sent: the
\* history is not rolled back, and there is no turn record of turn k and no
\* transcript.
C25_FailedTurnLeavesMessage ==
  turnError.turn # 0 =>
    LET k == turnError.turn
    IN /\ Len(history) = (2 * (k - 1)) + 1
       /\ HoldsTurns(history, k - 1)
       /\ history[Len(history)] =
            [role |-> "user", speaker |-> "none", content |-> currentMessage]
       /\ {f.turn : f \in turnFiles} = 1..(k - 1)
       /\ transcript = <<>>
       /\ "export.json" \notin files

C25_Witness ==
  /\ turnError.turn = 2
  /\ failedAttempts = Retries + 1
  /\ Len(history) = 3
  /\ Cardinality(turnFiles) = 1

(***************************************************************************)
(* The topic.                                                              *)
(***************************************************************************)
\* C26 (as claimed): in every turn the topic of the system instruction and
\* the topic stored in the history file are the topic of the session, the
\* string of the command line that is sent at turn 1 and recorded in the
\* transcript.
C26_OneTopic ==
  RequestBuilt =>
    /\ request.topic = argv.topic
    /\ historyTopic = argv.topic
    /\ request.provider = "openai" => Rendering[1] = SystemMessage(argv.topic)

(***************************************************************************)
(* Model overrides in the loaded configuration.                            *)
(***************************************************************************)
\* loadConfig has returned
ConfigLoaded == "session.log" \in files

\* config.LLM1_MODEL / config.LLM2_MODEL
OverrideOf(llmId, config) == IF llmId = "llm1" THEN config.LLM1_MODEL ELSE config.LLM2_MODEL

\* the default model of the participant's provider
DefaultModelOf(llmId, config) ==
  IF getProviderForLLM(llmId, config) = "openai" THEN config.OPENAI_MODEL
  ELSE config.ANTHROPIC_MODEL

\* C27 (as claimed): in every configuration loadConfig returns, an override
\* that is present is in the supported list of its participant's provider, so
\* that the model resolved for a participant is a supported override or the
\* default of the provider.
C27_OverridesSupported ==
  ConfigLoaded =>
    \A llmId \in {"llm1", "llm2"} :
      /\ OverrideOf(llmId, Config) # "undefined" =>
           isModelSupported(getProviderForLLM(llmId, Config), OverrideOf(llmId, Config))
      /\ \/ getModelForLLM(llmId, Config) = DefaultModelOf(llmId, Config)
         \/ isModelSupported(getProviderForLLM(llmId, Config),
                             getModelForLLM(llmId, Config))

(***************************************************************************)
(* Termination.                                                            *)
(***************************************************************************)
\* main() has ended: Completed (the transcript is written) or Failed (exit 1)
Terminated == pc \in {"done", "exited"}

\* C28: every session terminates, Completed or Failed, whatever max_turns
\* argument it is given and however the provider requests fail, provided
\* every HTTP request returns and every timer fires.
C28_Terminates == <>Terminated

C28_Witness ==
  /\ Terminated
  /\ turnError.turn = MaxFairArg
  /\ attempts = Retries + 1
  /\ delays = MaxFairArg - 1

(***************************************************************************)
(* Which messages carry the caching hint.                                  *)
(***************************************************************************)
\* C29: whenever a rendering for Anthropic covers more than 6 messages, the
\* messages that carry the caching hint are exactly those at positions
\* 1, 2, 3 and 4; the hinted set is therefore the same at every later turn.
C29_HintedPrefix ==
  (RequestBuilt /\ request.provider = "anthropic" /\ Len(history) > CacheMinMessages) =>
    Hinted(buildAnthropicMessages(history)) = 1..MaxCacheBlocks

C29_Witness ==
  /\ RequestBuilt
  /\ request.provider = "anthropic"
  /\ Len(history) = (2 * MaxTurnsLimit) - 1
  /\ Hinted(buildAnthropicMessages(history)) = {1, 2, 3, 4}

(***************************************************************************)
(* Fallback lists in the model list cache.                                 *)
(***************************************************************************)
\* C30: a lookup that falls back (to the hard-coded list when the API request
\* fails, to the static registry when the credentials are missing) puts its
\* list into the cache like a fetched one, and every call for that provider
\* within the next 24 hours returns that list and sends no API request,
\* whatever credentials the call is made with.
C30_FallbackCached ==
  [][\A p \in Providers :
       LookupStep(p) =>
         /\ (~lastLookup'.hit /\ lastLookup'.models \in {FallbackList, StaticList}) =>
              modelCache'[p] = [cached |-> TRUE, models |-> lastLookup'.models,
                                timestamp |-> now', ttl |-> CACHE_TTL]
         /\ (WithinTTL(p) /\ lastFetch[p].models \in {FallbackList, StaticList}) =>
              /\ lastLookup'.hit
              /\ lastLookup'.models = lastFetch[p].models
              /\ apiCalls' = apiCalls]_vars

C30_Witness ==
  /\ lastLookup.provider = "openai"
  /\ lastLookup.hit
  /\ lastLookup.credentials
  /\ lastLookup.models = StaticList
  /\ lastFetch["openai"].at = 0
  /\ now = 2 * RegistryTick
  /\ apiCalls = 0
====
